---------------------------- MODULE Spec2Model ----------------------------
(***************************************************************************)
(* A model of scrape_photos_selenium (src/selenium_photos_scraper.py): the *)
(* scroll-driven discovery loop, the per-item resolve / fetch / store      *)
(* pipeline with its exception handler, the output folder and the browser. *)
(*                                                                         *)
(* The whole state of one invocation (its locals, the output folder, the   *)
(* browser, and the history the properties read) is one record, st.  Every *)
(* step of the code is an operator from a state to the set of states the   *)
(* step can end in (more than one where an external call may raise).  The  *)
(* second variable, twin, is a second invocation run in lockstep with st;  *)
(* only SpecPair uses it.                                                  *)
(***************************************************************************)
EXTENDS Integers, Sequences, FiniteSets, TLC

VARIABLES st, twin

vars == <<st, twin>>

(***************************************************************************)
(* Bounds of the model.                                                    *)
(***************************************************************************)
\* longest gallery (number of item links it holds)
MaxGallery == 2
\* exceptions raised by external calls during one behaviour, not counting
\* the one the handler of line 338 swallows
MaxFaults == 1
\* largest configured --limit
MaxLimit == 2
\* invocations of the program against the same folder, one after the other
MaxRuns == 2
\* the short scroll budget (--scrolls) the runs are tried with
ShortScrolls == 2
\* how many scroll budgets past the empty-iteration threshold the long one is
ExtraScrolls == 2

(***************************************************************************)
(* Program constants.                                                      *)
(***************************************************************************)
\* limit=None (line 32, 416); `if limit and ...` treats None and 0 alike
None == -1
\* "if no_new_photos_count >= 10" (line 351)
EmptyThreshold == 10
\* "if file_size < 1000" (line 312)
MinFileSize == 1000
\* "largest_size > 40000" (line 246)
MinArea == 40000
\* "for j in range(3)" (line 362)
ScrollSteps == 3
\* "response.status_code == 200" (line 306)
HttpOk == 200

Min(a, b) == IF a < b THEN a ELSE b

Range(f) == {f[i] : i \in DOMAIN f}

(***************************************************************************)
(* Photo identifiers and file names.  An identifier is a string of digits  *)
(* (kind "num", its value n) or the fallback photo_NNNN (kind "photo");    *)
(* kind "none" is Python's None.  Kinds "other" and "dot" are stems of     *)
(* files the program did not write.                                        *)
(***************************************************************************)
Num(n) == [k |-> "num", n |-> n]

NoId == [k |-> "none", n |-> 0]

\* a fallback name that ignores the count
FallbackIdFixed(downloaded_count) == [k |-> "photo", n |-> 1]

\* f"photo_{downloaded_count + 1:04d}" (line 278): injective in the count
FallbackId(downloaded_count) == [k |-> "photo", n |-> downloaded_count + 1]


(***************************************************************************)
(* The environment: the images the site serves and the item links of the   *)
(* gallery.  An image source is abstracted to what the code reads of it:   *)
(* src is "http", "data" (an inline data: payload) or "" (no src); urlid   *)
(* is the number the pattern /(\d{10,})_ finds in it (0: no match); urlext *)
(* is the text after the last dot of its last path segment ("": no dot);   *)
(* status, data and len are what requests.get returns for it.  A link is   *)
(* abstracted to fbid, the digits the pattern fbid=(\d+) finds in it       *)
(* (0: no match), and page, what its detail view shows: for each of the    *)
(* five image selectors, in order, the candidates it finds; and sels, the   *)
(* link selectors of lines 150-154 (1: '/photos/', 2: '/photo/',           *)
(* 3: 'fbid=') its href matches; album says that the href is an album's.   *)
(* The site numbers its photos: two locators carry the same number only    *)
(* when they show the same photo.                                          *)
(***************************************************************************)
Image(src, urlid, urlext, status, data, len) ==
    [src |-> src, urlid |-> urlid, urlext |-> urlext, status |-> status,
     data |-> data, len |-> len]

Images ==
    << Image("http", 101, "jpg", 200, "a", 2000),
       Image("http", 102, "PNG", 200, "b", 1000),
       Image("http", 0, "", 200, "c", 2000),
       Image("http", 0, "php", 200, "d", 2000),
       Image("http", 105, "jpg", 200, "e", 999),
       Image("http", 106, "jpg", 404, "f", 2000),
       Image("http", 0, "jpg", 200, "t", 2000),
       Image("data", 0, "", 200, "g", 2000),
       Image("http", 109, "jpg", 200, "a", 2000),
       Image("", 0, "", 200, "i", 2000) >>

\* an img element: w and h are its width and height attributes (Absent: it
\* has none, NotANumber: text that int() rejects), bw and bh the size of its
\* rendered box, img the image it shows
Absent == -1

NotANumber == -2

Sized(w, h, bw, bh, img) == [w |-> w, h |-> h, bw |-> bw, bh |-> bh, img |-> img]

Cand(w, h, img) == Sized(w, h, w, h, img)

Boxed(bw, bh, img) == Sized(Absent, Absent, bw, bh, img)

\* a detail view whose first selector finds the one candidate c
Simple(c) == << <<c>>, <<>>, <<>>, <<>>, <<>> >>

Link(fbid, sels, page) ==
    [fbid |-> fbid, sels |-> sels, album |-> FALSE, page |-> page]

\* a link to an album: its href holds '/photos/a.' or '/photos/albums/'
Album(sels) ==
    [fbid |-> 0, sels |-> sels, album |-> TRUE,
     page |-> << <<>>, <<>>, <<>>, <<>>, <<>> >>]

Catalog ==
    << \* two candidates of the same area
       Link(101, {2, 3}, << <<Cand(960, 720, 1), Cand(720, 960, 9)>>,
                            <<>>, <<>>, <<>>, <<>> >>),
       \* the first selector finds a thumbnail only
       Link(0, {1}, << <<Cand(100, 100, 7)>>, <<>>, <<>>,
                       <<Cand(100, 100, 7), Cand(800, 600, 2)>>, <<>> >>),
       \* a candidate whose width attribute is no number
       Link(0, {1}, << <<Sized(NotANumber, 720, 1200, 900, 8), Cand(960, 720, 3)>>,
                       <<>>, <<>>, <<>>, <<>> >>),
       \* no width and height attributes
       Link(0, {2}, Simple(Boxed(640, 480, 4))),
       Link(105, {3}, Simple(Cand(960, 720, 5))),
       Link(106, {3}, Simple(Cand(960, 720, 6))),
       \* area 40000 exactly, and attributes "0" on a large box
       Link(107, {2, 3}, << <<Cand(200, 200, 7)>>,
                            <<Sized(0, 0, 960, 720, 1)>>, <<>>, <<>>, <<>> >>),
       Link(0, {1}, Simple(Cand(960, 720, 8))),
       Link(109, {3}, Simple(Cand(960, 720, 9))),
       \* a later selector finds a larger image
       Link(101, {3}, << <<Cand(960, 720, 1)>>, <<>>,
                         <<Cand(2000, 1500, 2)>>, <<>>, <<>> >>),
       \* an image without src
       Link(0, {2}, Simple(Cand(960, 720, 10))),
       Album({1, 3}) >>

Links == DOMAIN Catalog

\* the galleries tried: sequences of distinct links, at most MaxGallery long
RECURSIVE SeqsUpTo(_)
SeqsUpTo(n) ==
    IF n = 0 THEN {<<>>}
    ELSE LET shorter == SeqsUpTo(n - 1)
         IN shorter \cup {Append(g, l) : g \in {h \in shorter : Len(h) = n - 1},
                                         l \in Links}

Galleries == {g \in SeqsUpTo(MaxGallery) :
                 \A i, j \in DOMAIN g : i # j => g[i] # g[j]}

(***************************************************************************)
(* The output folder: a set of files, at most one of each name.            *)
(***************************************************************************)
File(stem, ext, data, len) == [stem |-> stem, ext |-> ext, data |-> data, len |-> len]

\* a test that never finds the file
ExistsNever(files, stem, ext) == FALSE

\* filepath.exists() (line 291)
Exists(files, stem, ext) == \E f \in files : f.stem = stem /\ f.ext = ext

\* open(filepath, 'wb') then write: the file of that name holds data
WriteFile(files, stem, ext, data, len) ==
    {f \in files : ~(f.stem = stem /\ f.ext = ext)} \cup {File(stem, ext, data, len)}

\* filepath.unlink()
Unlink(files, stem, ext) == {f \in files : ~(f.stem = stem /\ f.ext = ext)}

\* filepath.name.startswith('.')
Hidden(f) == f.stem.k = "dot"

get_existing_photo_ids(files) == {f.stem : f \in {g \in files : ~Hidden(g)}}

\* the folders a first run may find: empty, or left by other programs and
\* by an earlier run of this one
Folders ==
    { {},
      { File([k |-> "dot", n |-> 0], "", "h", 10),
        File([k |-> "other", n |-> 0], ".txt", "n", 10),
        File(FallbackId(1), ".jpg", "z", 2000) } }

(***************************************************************************)
(* The state of one invocation.                                            *)
(*   limit, max_scrolls, resume       the arguments (lines 32, 410-419)    *)
(*   gallery, first_load              the site: the gallery's links in     *)
(*                                    page order, and how many of them the *)
(*                                    page shows before any scrolling      *)
(*   files                            the output folder                    *)
(*   view, scrollY                    the browser: the page it shows (link *)
(*                                    0 is the gallery, photos_url) and    *)
(*                                    how far that page is scrolled, in    *)
(*                                    scroll increments                    *)
(*   pc                               where the code is                    *)
(*   downloaded_count .. response     the locals of the same names         *)
(*   iter                             iterations of the scroll loop begun  *)
(*   budget                           how many external calls may raise    *)
(*   run, files0, faults, faulted, raised_at, results, snap, stop, total,  *)
(*   prev                             history: the number of this run, the *)
(*                                    folder it began with, the calls that *)
(*                                    raised so far, the links whose       *)
(*                                    processing saw one, the step of the  *)
(*                                    last one, the                        *)
(*                                    outcomes counted in order, the state *)
(*                                    when the current item began, why the *)
(*                                    loop ended, the total the summary    *)
(*                                    printed, and the previous run's end  *)
(*   navigated, fetched               history: the links driver.get (line  *)
(*                                    212) and requests.get (line 304)     *)
(*                                    were called for, in order            *)
(*   queried                          how many of img_selectors were       *)
(*                                    queried for the current item         *)
(*   hrefs                            the hrefs read in the last iteration *)
(*                                    (line 161), in the order read        *)
(***************************************************************************)
Gallery == [page |-> "gallery", link |-> 0]

ItemView(l) == [page |-> "item", link |-> l]

NoResponse == [status |-> 0, data |-> "", len |-> 0]

Snap(s) ==
    [downloaded |-> s.downloaded_count, skipped |-> s.skipped_count,
     failed |-> s.failed_count, files |-> s.files, ids |-> s.existing_ids,
     view |-> s.view, scrollY |-> s.scrollY]

NoPrev ==
    [files |-> {}, files0 |-> {}, processed |-> {}, results |-> <<>>,
     downloaded |-> 0, skipped |-> 0, failed |-> 0, pc |-> "none"]

Summary(s) ==
    [files |-> s.files, files0 |-> s.files0, processed |-> s.processed_urls,
     results |-> s.results,
     downloaded |-> s.downloaded_count, skipped |-> s.skipped_count,
     failed |-> s.failed_count, pc |-> s.pc]

\* an index that is read from the folder only when resuming
InitialIndexOnResume(files, resume) ==
    IF resume THEN get_existing_photo_ids(files) ELSE {}

\* lines 85-89: the index the run starts with; resume only chooses a message
InitialIndex(files, resume) == get_existing_photo_ids(files)

\* lines 66-137: the state when the scroll loop is reached, the browser on
\* the gallery page (line 124)
Start(limit, max_scrolls, resume, gallery, first_load, files, budget, run, faults, prev) ==
    [limit |-> limit, max_scrolls |-> max_scrolls, resume |-> resume,
     gallery |-> gallery, first_load |-> first_load,
     files |-> files, view |-> Gallery, scrollY |-> 0,
     pc |-> "loop",
     downloaded_count |-> 0, failed_count |-> 0, skipped_count |-> 0,
     existing_ids |-> InitialIndex(files, resume),
     no_new_photos_count |-> 0, iter |-> 0, processed_urls |-> {},
     new_photos |-> <<>>, idx |-> 1, photo_url |-> 0, photo_id |-> NoId,
     full_img |-> 0, ext |-> "", response |-> NoResponse,
     budget |-> budget,
     run |-> run, files0 |-> files, faults |-> faults, faulted |-> {},
     raised_at |-> "", results |-> <<>>,
     navigated |-> <<>>, fetched |-> <<>>, queried |-> 0,
     hrefs |-> <<>>, current_photo_links |-> <<>>,
     stop |-> "", total |-> 0, prev |-> prev,
     snap |-> [downloaded |-> 0, skipped |-> 0, failed |-> 0, files |-> files,
               ids |-> InitialIndex(files, resume), view |-> Gallery,
               scrollY |-> 0]]

(***************************************************************************)
(* External calls.  A call that may raise does so only while the model's   *)
(* budget of faults lasts.  driver.get(url) loads url afresh, at the top   *)
(* of the page; when it raises, the browser shows either the page it was   *)
(* on or the page asked for.                                               *)
(***************************************************************************)
MayRaise(s) == s.faults < s.budget

\* a call that may raise: the query of selector k (i = 0) or the reading of
\* the i-th element it found
Call(k, i) == [k |-> k, i |-> i]

\* an external call made while processing s.photo_url raised
Raise(s) ==
    [s EXCEPT !.faults = @ + 1, !.faulted = @ \cup {s.photo_url},
              !.raised_at = s.pc]

\* an external call made outside the per-item try block raised (lines
\* 158, 358, 363): the exception leaves the function through finally
Abort(s) ==
    [s EXCEPT !.faults = @ + 1, !.raised_at = s.pc, !.pc = "aborted",
              !.stop = "exception"]

driver_get(s, url) == [s EXCEPT !.view = url, !.scrollY = 0]

driver_get_raises(s, url) ==
    IF MayRaise(s) THEN {Raise(driver_get(s, url)), Raise(s)} ELSE {}

\* downloaded_count += 1, skipped_count += 1 or failed_count += 1 for the
\* link being processed
Count(s, what) ==
    LET t == [s EXCEPT !.results = Append(@, [link |-> s.photo_url, what |-> what])]
    IN CASE what = "Downloaded" -> [t EXCEPT !.downloaded_count = @ + 1]
         [] what = "Skipped" -> [t EXCEPT !.skipped_count = @ + 1]
         [] what = "Failed" -> [t EXCEPT !.failed_count = @ + 1]

\* the limit test with > for >=
LimitReachedLate(s) == s.limit # None /\ s.limit # 0 /\ s.downloaded_count > s.limit

\* "if limit and downloaded_count >= limit" (lines 141, 191)
LimitReached(s) == s.limit # None /\ s.limit # 0 /\ s.downloaded_count >= s.limit

(***************************************************************************)
(* Lines 139-143: the head of the scroll loop.                             *)
(***************************************************************************)
\* a loop that makes one iteration more
BudgetSpentLate(s) == s.iter > s.max_scrolls

\* "for scroll_iteration in range(max_scrolls)" (line 139) is exhausted
BudgetSpent(s) == s.iter >= s.max_scrolls

LoopStep(s) ==
    IF BudgetSpent(s)
    THEN {[s EXCEPT !.pc = "summary", !.stop = "budget"]}
    ELSE IF LimitReached(s)
         THEN {[s EXCEPT !.pc = "summary", !.stop = "limit"]}
         ELSE {[s EXCEPT !.pc = "discover"]}

(***************************************************************************)
(* Lines 150-184 and 347-353: the links on the page, the new ones among    *)
(* them, and the count of iterations in a row that found none.             *)
(***************************************************************************)
\* what the gallery page shows at scroll offset scrollY: one more link for
\* every ScrollSteps increments; another page shows no gallery link
PageLinks(s) ==
    IF s.view = Gallery
    THEN SubSeq(s.gallery, 1,
                Min(Len(s.gallery), s.first_load + (s.scrollY \div ScrollSteps)))
    ELSE <<>>

\* driver.find_elements(By.CSS_SELECTOR, selector): the links, in page
\* order, whose href matches selector k
Matching(links, k) == SelectSeq(links, LAMBDA l : k \in Catalog[l].sels)

\* a list that keeps every occurrence
NoDedup(xs) == xs

\* list(dict.fromkeys(xs)) (line 170)
RECURSIVE DedupInto(_, _)
DedupInto(front, rest) ==
    IF rest = <<>> THEN front
    ELSE DedupInto(front \o (IF Head(rest) \in Range(front)
                             THEN <<>> ELSE <<Head(rest)>>),
                   Tail(rest))

Dedup(xs) == DedupInto(<<>>, xs)

\* a filter that lets every link through
WithoutNothing(xs, seen) == xs

\* [url for url in xs if url not in seen] (line 173)
Without(xs, seen) == SelectSeq(xs, LAMBDA url : url \notin seen)

\* elem.get_attribute('href') of the elements selector k found (line
\* 161); stale are the readings that raised (line 166: the element is
\* passed over)
RECURSIVE Hrefs(_, _, _, _)
Hrefs(elements, i, k, stale) ==
    IF i > Len(elements) THEN <<>>
    ELSE (IF Call(k, i) \in stale THEN <<>> ELSE <<elements[i]>>)
         \o Hrefs(elements, i + 1, k, stale)

\* the hrefs read in one iteration, in the order they are read
AllHrefs(s, stale) ==
    Hrefs(Matching(PageLinks(s), 1), 1, 1, stale)
    \o Hrefs(Matching(PageLinks(s), 2), 1, 2, stale)
    \o Hrefs(Matching(PageLinks(s), 3), 1, 3, stale)

\* "'/photos/a.' not in href and '/photos/albums/' not in href" (line 164)
NoAlbums(hrefs) == SelectSeq(hrefs, LAMBDA href : ~Catalog[href].album)

\* lines 156-170
current_photo_links(s, stale) ==
    CHOOSE links \in {Dedup(NoAlbums(hrefs)) : hrefs \in {AllHrefs(s, stale)}} : TRUE

\* the threshold test with > for >=
EmptyStopLate(count) == count > EmptyThreshold

\* "if no_new_photos_count >= 10: break" (line 351)
EmptyStop(count) == count >= EmptyThreshold

\* no_new_photos_count after an iteration that found new links (line 184)
CountAfterNew(count) == 0

\* lines 170-184 and 347-353, links being current_photo_links of line 170
Batch(s, hrefs, links) ==
    LET new == Without(links, s.processed_urls)
        t == [s EXCEPT !.hrefs = hrefs,
                       !.current_photo_links = links, !.new_photos = new]
    IN IF new # <<>>
       THEN [t EXCEPT !.idx = 1, !.pc = "item",
                      !.no_new_photos_count = CountAfterNew(@)]
       ELSE LET n == s.no_new_photos_count + 1
            IN IF EmptyStop(n)
               THEN [t EXCEPT !.no_new_photos_count = n,
                              !.pc = "summary", !.stop = "empty"]
               ELSE [t EXCEPT !.no_new_photos_count = n, !.pc = "scroll"]

DiscoverWith(s, stale) ==
    {Batch(s, hrefs, links) : hrefs \in {AllHrefs(s, stale)},
                              links \in {current_photo_links(s, stale)}}

\* the readings of line 161 that are made in one iteration
HrefCalls(s) ==
    UNION {{Call(k, i) : i \in DOMAIN Matching(PageLinks(s), k)} : k \in 1 .. 3}

\* an exception that "except: continue" (line 166) swallowed
Swallowed(s) == [s EXCEPT !.faults = @ + 1, !.raised_at = s.pc]

DiscoverStep(s) ==
    DiscoverWith(s, {})
    \cup (IF MayRaise(s)
          THEN {Abort(s)}
               \cup UNION {DiscoverWith(Swallowed(s), {call}) : call \in HrefCalls(s)}
          ELSE {})

(***************************************************************************)
(* Lines 186-207: the head of the loop over the new links: mark the link,  *)
(* check the limit, read the identifier off the link, skip a known one.    *)
(***************************************************************************)
\* re.search(r'fbid=(\d+)', photo_url) (lines 197-201)
PhotoIdFromUrl(l) == IF Catalog[l].fbid # 0 THEN Num(Catalog[l].fbid) ELSE NoId

\* "continue" and the end of the try block: on to the next new link
NextItem(s) == [s EXCEPT !.idx = @ + 1, !.pc = "item"]

ItemStep(s) ==
    IF s.idx > Len(s.new_photos)
    THEN {[s EXCEPT !.pc = "scroll"]}
    ELSE LET url == s.new_photos[s.idx]
             t == [s EXCEPT !.photo_url = url,
                            !.processed_urls = @ \cup {url},
                            !.photo_id = PhotoIdFromUrl(url),
                            !.full_img = 0, !.ext = "", !.response = NoResponse,
                            !.queried = 0,
                            !.snap = Snap(s)]
         IN IF LimitReached(t)
            THEN {[t EXCEPT !.pc = "scroll"]}
            ELSE IF t.photo_id # NoId /\ t.photo_id \in t.existing_ids
                 THEN {NextItem(Count(t, "Skipped"))}
                 ELSE {[t EXCEPT !.pc = "navigate"]}

(***************************************************************************)
(* Line 212: driver.get(photo_url).                                        *)
(***************************************************************************)
NavigateStep(s) ==
    LET c == [s EXCEPT !.navigated = Append(@, s.photo_url)]
    IN {[driver_get(c, ItemView(s.photo_url)) EXCEPT !.pc = "resolve"]}
       \cup {[t EXCEPT !.pc = "except"] :
                t \in driver_get_raises(c, ItemView(s.photo_url))}

(***************************************************************************)
(* Lines 216-298: find the full-size image, read its source, derive the    *)
(* identifier and the file name, skip a file that exists.                  *)
(***************************************************************************)
NoCand == Cand(0, 0, 0)

\* img.get_attribute('width') or img.size['width'] (lines 234, 236)
Width(c) == IF c.w # Absent THEN c.w ELSE c.bw

Height(c) == IF c.h # Absent THEN c.h ELSE c.bh

\* width * height (line 238)
Area(c) == Width(c) * Height(c)

\* lines 232-244: the candidates that are measured; one whose attributes
\* int() rejects or whose reading raised is passed over (line 243)
RECURSIVE Readable(_, _, _, _)
Readable(imgs, i, k, broken) ==
    IF i > Len(imgs) THEN <<>>
    ELSE (IF \/ Call(k, i) \in broken
             \/ imgs[i].w = NotANumber
             \/ imgs[i].h = NotANumber
          THEN <<>> ELSE <<imgs[i]>>)
         \o Readable(imgs, i + 1, k, broken)

\* lines 229-244: the first candidate of the largest area, if any is > 0
RECURSIVE LargestFrom(_, _, _, _)
LargestFrom(imgs, i, largest, largest_size) ==
    IF i > Len(imgs) THEN [largest |-> largest, size |-> largest_size]
    ELSE IF Area(imgs[i]) > largest_size
         THEN LargestFrom(imgs, i + 1, imgs[i], Area(imgs[i]))
         ELSE LargestFrom(imgs, i + 1, largest, largest_size)

\* the floor test with >= for >
BigEnoughAtFloor(r) == r.largest # NoCand /\ r.size >= MinArea

\* "largest and largest_size > 40000" (line 246)
BigEnough(r) == r.largest # NoCand /\ r.size > MinArea

\* lines 224-250: the first selector, from the k-th on, whose largest
\* candidate is big enough, and how many selectors were queried; broken
\* are the calls that raised (line 249: a selector whose query raised is
\* passed over)
RECURSIVE FullImgFrom(_, _, _)
FullImgFrom(page, k, broken) ==
    IF k > Len(page) THEN [full_img |-> NoCand, queried |-> Len(page)]
    ELSE LET r == LargestFrom(Readable(page[k], 1, k, broken), 1, NoCand, 0)
         IN IF Call(k, 0) \notin broken /\ BigEnough(r)
            THEN [full_img |-> r.largest, queried |-> k]
            ELSE FullImgFrom(page, k + 1, broken)

\* url_ext.lower()
Lower(e) == CASE e = "JPG" -> "jpg" [] e = "PNG" -> "png" [] OTHER -> e

\* lines 281-285
ExtOf(urlext) ==
    IF urlext # "" /\ Lower(urlext) \in {"jpg", "jpeg", "png", "gif", "webp"}
    THEN "." \o Lower(urlext)
    ELSE ".jpg"

\* lines 272-278: the identifier when the link gave none
IdFromImage(im, downloaded_count) ==
    IF im.urlid # 0 THEN Num(im.urlid) ELSE FallbackId(downloaded_count)

ResolveWith(s, broken) ==
    LET found == FullImgFrom(Catalog[s.photo_url].page, 1, broken)
        c == found.full_img
        t == [s EXCEPT !.full_img = c.img, !.queried = found.queried]
        im == Images[c.img]
        id == IF s.photo_id # NoId THEN s.photo_id
              ELSE IdFromImage(im, s.downloaded_count)
        ext == ExtOf(im.urlext)
    IN IF c = NoCand
       THEN {[Count(t, "Failed") EXCEPT !.pc = "back"]}
       ELSE (IF im.src = "" \/ im.src = "data"
             THEN {[Count(t, "Failed") EXCEPT !.pc = "back"]}
             ELSE IF Exists(s.files, id, ext)
                  THEN {[Count(t, "Skipped") EXCEPT !.photo_id = id, !.ext = ext,
                                                    !.existing_ids = @ \cup {id},
                                                    !.pc = "back"]}
                  ELSE {[t EXCEPT !.photo_id = id, !.ext = ext, !.pc = "fetch"]})
            \* full_img.get_attribute('src') raised (line 261)
            \cup (IF MayRaise(t) THEN {[Raise(t) EXCEPT !.pc = "except"]} ELSE {})

\* the calls of lines 227 and 234-235 that are made when none raises
Calls(page) ==
    UNION {{Call(k, i) : i \in 0 .. Len(page[k])} :
              k \in 1 .. FullImgFrom(page, 1, {}).queried}

ResolveStep(s) ==
    ResolveWith(s, {})
    \cup (IF MayRaise(s)
          THEN UNION {ResolveWith(Raise(s), {call}) :
                         call \in Calls(Catalog[s.photo_url].page)}
          ELSE {})

(***************************************************************************)
(* Lines 300-304: requests.get(img_url, timeout=30).                       *)
(***************************************************************************)
FetchStep(s) ==
    LET im == Images[s.full_img]
        c == [s EXCEPT !.fetched = Append(@, s.photo_url)]
    IN {[c EXCEPT !.response = [status |-> im.status, data |-> im.data,
                                len |-> im.len],
                  !.pc = "store"]}
       \cup (IF MayRaise(c) THEN {[Raise(c) EXCEPT !.pc = "except"]} ELSE {})

(***************************************************************************)
(* Lines 306-325: write the file, check its size, count the outcome.       *)
(***************************************************************************)
\* "file_size < 1000" (line 312)
TooSmall(file_size) == file_size < MinFileSize

StoreStep(s) ==
    LET r == s.response
        written == [s EXCEPT !.files = WriteFile(@, s.photo_id, s.ext, r.data, r.len)]
        truncated == [s EXCEPT !.files = WriteFile(@, s.photo_id, s.ext, "", 0)]
    IN IF r.status = HttpOk
       THEN (IF TooSmall(r.len)
             THEN {[Count([written EXCEPT !.files = Unlink(@, s.photo_id, s.ext)],
                          "Failed") EXCEPT !.pc = "back"]}
                  \* filepath.unlink() raised (line 314)
                  \cup (IF MayRaise(s)
                        THEN {[Raise(written) EXCEPT !.pc = "except"]} ELSE {})
             ELSE {[Count(written, "Downloaded")
                      EXCEPT !.existing_ids = @ \cup {s.photo_id}, !.pc = "back"]})
            \* open raised (no file), f.write raised (an empty file is left),
            \* filepath.stat() raised (the whole file is left)
            \cup (IF MayRaise(s)
                  THEN {[Raise(s) EXCEPT !.pc = "except"],
                        [Raise(truncated) EXCEPT !.pc = "except"],
                        [Raise(written) EXCEPT !.pc = "except"]}
                  ELSE {})
       ELSE {[Count(s, "Failed") EXCEPT !.pc = "back"]}

(***************************************************************************)
(* Lines 256, 267, 296, 328: driver.get(photos_url) inside the try block.  *)
(***************************************************************************)
BackStep(s) ==
    {NextItem(driver_get(s, Gallery))}
    \cup {[t EXCEPT !.pc = "except"] : t \in driver_get_raises(s, Gallery)}

(***************************************************************************)
(* Lines 331-340: the handler of the per-item try block.                   *)
(***************************************************************************)
\* a handler that lets the exception go on
AfterExceptRaises(s) == [s EXCEPT !.pc = "aborted", !.stop = "exception"]

\* where the handler leaves the loop: "continue" (line 340)
AfterExcept(s) == NextItem(s)

ExceptStep(s) ==
    LET t == Count(s, "Failed")
    IN {AfterExcept(driver_get(t, Gallery)),
        \* driver.get raised and "except: pass" swallowed it, the browser
        \* still on the page it was on
        AfterExcept(t)}

(***************************************************************************)
(* Lines 355-369: three small scrolls of half a viewport each.             *)
(***************************************************************************)
ScrollStep(s) ==
    {[s EXCEPT !.scrollY = @ + ScrollSteps, !.iter = @ + 1, !.pc = "loop"]}
    \cup (IF MayRaise(s) THEN {Abort(s)} ELSE {})

(***************************************************************************)
(* Lines 371-380: the summary.                                             *)
(***************************************************************************)
SummaryStep(s) == {[s EXCEPT !.total = Cardinality(s.existing_ids), !.pc = "done"]}

(***************************************************************************)
(* The program is run again with the same arguments against the same       *)
(* gallery and the folder the run before left.                             *)
(***************************************************************************)
Again(s) ==
    Start(s.limit, s.max_scrolls, s.resume, s.gallery, s.first_load, s.files,
          s.budget, s.run + 1, s.faults, Summary(s))

(***************************************************************************)
(* The specifications.  Spec: one invocation, any limit, either scroll     *)
(* budget, any gallery, either folder, external calls raising within the   *)
(* budget of faults.  SpecRerun: no call raises, and the program is run    *)
(* again when it has ended.  SpecPair: two invocations that differ in      *)
(* resume alone, step by step.                                             *)
(***************************************************************************)
Limits == {None} \cup (0 .. MaxLimit)

ScrollBudgets == {ShortScrolls, EmptyThreshold + ExtraScrolls}

Inputs(resume, budget) ==
    {Start(limit, max_scrolls, resume, gallery, first_load, files, budget, 1, 0, NoPrev) :
        limit \in Limits, max_scrolls \in ScrollBudgets,
        gallery \in Galleries, first_load \in 0 .. MaxGallery, files \in Folders}

Runnable(s) == s.first_load <= Len(s.gallery)

Init == st \in {s \in Inputs(FALSE, MaxFaults) : Runnable(s)} /\ twin = 0

Loop == st.pc = "loop" /\ st' \in LoopStep(st) /\ UNCHANGED twin

Discover == st.pc = "discover" /\ st' \in DiscoverStep(st) /\ UNCHANGED twin

Item == st.pc = "item" /\ st' \in ItemStep(st) /\ UNCHANGED twin

Navigate == st.pc = "navigate" /\ st' \in NavigateStep(st) /\ UNCHANGED twin

Resolve == st.pc = "resolve" /\ st' \in ResolveStep(st) /\ UNCHANGED twin

Fetch == st.pc = "fetch" /\ st' \in FetchStep(st) /\ UNCHANGED twin

Store == st.pc = "store" /\ st' \in StoreStep(st) /\ UNCHANGED twin

Back == st.pc = "back" /\ st' \in BackStep(st) /\ UNCHANGED twin

Except == st.pc = "except" /\ st' \in ExceptStep(st) /\ UNCHANGED twin

Scroll == st.pc = "scroll" /\ st' \in ScrollStep(st) /\ UNCHANGED twin

Finish == st.pc = "summary" /\ st' \in SummaryStep(st) /\ UNCHANGED twin

Next ==
    \/ Loop
    \/ Discover
    \/ Item
    \/ Navigate
    \/ Resolve
    \/ Fetch
    \/ Store
    \/ Back
    \/ Except
    \/ Scroll
    \/ Finish

Spec == Init /\ [][Next]_vars

\* SpecFair: every call returns or raises, so the code always takes its
\* next step.  Its runs begin with an empty folder and galleries of three
\* links: one with an identifier, one that needs the fallback name, one
\* whose detail view has no qualifying image.
FairLinks == {1, 3, 7}

InitFair ==
    /\ st \in {s \in Inputs(FALSE, MaxFaults) :
                 /\ Runnable(s)
                 /\ Range(s.gallery) \subseteq FairLinks
                 /\ s.files = {}}
    /\ twin = 0

SpecFair == InitFair /\ [][Next]_vars /\ WF_vars(Next)

InitRerun == st \in {s \in Inputs(FALSE, 0) : Runnable(s)} /\ twin = 0

Rerun ==
    /\ st.pc = "done"
    /\ st.run < MaxRuns
    /\ st' = Again(st)
    /\ UNCHANGED twin

NextRerun ==
    \/ Loop
    \/ Discover
    \/ Item
    \/ Navigate
    \/ Resolve
    \/ Fetch
    \/ Store
    \/ Back
    \/ Scroll
    \/ Finish
    \/ Rerun

SpecRerun == InitRerun /\ [][NextRerun]_vars

\* the step the code takes from state s
StepOf(s) ==
    CASE s.pc = "loop" -> LoopStep(s)
      [] s.pc = "discover" -> DiscoverStep(s)
      [] s.pc = "item" -> ItemStep(s)
      [] s.pc = "navigate" -> NavigateStep(s)
      [] s.pc = "resolve" -> ResolveStep(s)
      [] s.pc = "fetch" -> FetchStep(s)
      [] s.pc = "store" -> StoreStep(s)
      [] s.pc = "back" -> BackStep(s)
      [] s.pc = "except" -> ExceptStep(s)
      [] s.pc = "scroll" -> ScrollStep(s)
      [] s.pc = "summary" -> SummaryStep(s)
      [] OTHER -> {}

InitPair ==
    \E limit \in Limits, max_scrolls \in ScrollBudgets, gallery \in Galleries,
       files \in Folders :
        \E first_load \in 0 .. Len(gallery) :
            /\ st = Start(limit, max_scrolls, FALSE, gallery, first_load, files,
                          0, 1, 0, NoPrev)
            /\ twin = Start(limit, max_scrolls, TRUE, gallery, first_load, files,
                            0, 1, 0, NoPrev)

PairStep == st' \in StepOf(st) /\ twin' \in StepOf(twin)

NextPair == PairStep

SpecPair == InitPair /\ [][NextPair]_vars

(***************************************************************************)
(* What the properties speak of.                                           *)
(***************************************************************************)
\* the steps between driver.get(photo_url) and the end of one item
ItemPcs == {"navigate", "resolve", "fetch", "store", "back", "except"}

\* the processing of a link of the current batch has just ended; the locals
\* (photo_url, photo_id, ext, response) and snap are still that link's
ItemEnded(s) == s.pc = "item" /\ s.idx > 1

\* the links counted with outcome what, in a sequence of counted outcomes
LinksCounted(results, what) ==
    {results[i].link : i \in {j \in DOMAIN results : results[j].what = what}}

HasResult(s, l) == \E i \in DOMAIN s.results : s.results[i].link = l

\* the image the detail view of link l resolves to (0: none)
ResolvedImage(l) == FullImgFrom(Catalog[l].page, 1, {}).full_img.img

\* link l resolves to a network image that is served with status 200 and
\* at least the minimum size
GoodLink(l) ==
    /\ ResolvedImage(l) # 0
    /\ Images[ResolvedImage(l)].src = "http"
    /\ Images[ResolvedImage(l)].status = HttpOk
    /\ Images[ResolvedImage(l)].len >= MinFileSize

(***************************************************************************)
(* C1 - Dedup idempotence across runs.  When the program has been run a    *)
(* second time against the same gallery and the folder the first run left  *)
(* (which began with an empty folder; no limit, no call raising, the       *)
(* second run seeing exactly the links the first saw), the folder holds    *)
(* the files it held after the first run, the                              *)
(* second run's Downloaded count is 0, and every link the first run        *)
(* counted Downloaded is counted Skipped by the second.                    *)
(* The code breaks it: the fallback name photo_NNNN is built from the      *)
(* run's own Downloaded count, so an item without an identifier gets       *)
(* another name in the second run.                                         *)
(***************************************************************************)
C1_DedupIdempotence ==
    (/\ st.run = 2
     /\ st.pc = "done"
     /\ st.prev.files0 = {}
     /\ st.limit = None
     /\ st.faults = 0
     /\ st.processed_urls = st.prev.processed)
    => /\ st.files = st.prev.files
       /\ st.downloaded_count = 0
       /\ LinksCounted(st.prev.results, "Downloaded")
             \subseteq LinksCounted(st.results, "Skipped")

(***************************************************************************)
(* C2 - Content identity.  No two files of the output folder hold the same *)
(* bytes: of two items whose fetched bytes are identical at most one is    *)
(* stored.  The code breaks it: a file is named after the photo's number,  *)
(* never after its bytes, so the same bytes under two numbers are stored   *)
(* twice.                                                                  *)
(***************************************************************************)
C2_ContentIdentity ==
    st.faults = 0
    => \A f, g \in st.files : f.data = g.data => f = g

(***************************************************************************)
(* C3 - Limit enforcement.  With a limit N >= 1: the Downloaded count      *)
(* never exceeds N; once it has reached N the code is at no step that      *)
(* navigates to an item page, inspects it, fetches or stores; and when the *)
(* run has ended and at least N of the links it came to were resolvable,   *)
(* fetchable, valid and not yet stored (no call raised for them and they   *)
(* were not found stored already), the Downloaded count is exactly N.      *)
(***************************************************************************)
Eligible(s) ==
    {l \in s.processed_urls :
        /\ GoodLink(l)
        /\ l \notin s.faulted
        /\ l \notin LinksCounted(s.results, "Skipped")}

C4_SizeFloor ==
    (/\ ItemEnded(st)
     /\ st.response # NoResponse
     /\ st.response.len < MinFileSize
     /\ st.raised_at # "store")
    => /\ ~Exists(st.files, st.photo_id, st.ext)
       /\ st.existing_ids = st.snap.ids
       /\ st.downloaded_count = st.snap.downloaded
       /\ st.failed_count = st.snap.failed + 1

(***************************************************************************)
(* C5 - Context restoration.  When the processing of an item has ended,    *)
(* the browser shows the gallery page.                                     *)
(* The code breaks it: after an exception the handler's own navigation     *)
(* back may raise too, the handler swallows that (lines 335-339), and the  *)
(* loop goes on with the browser on the item's page.                       *)
(***************************************************************************)
C5_ContextRestoration == ItemEnded(st) => st.view = Gallery

(***************************************************************************)
(* C6 - Scroll-state isolation.  When the processing of an item has ended  *)
(* (no call having raised), the gallery page is scrolled as far as it was  *)
(* when the item began.                                                    *)
(* The code breaks it: it inspects the item in the gallery's own window    *)
(* and comes back with driver.get(photos_url), which loads the gallery     *)
(* afresh, at the top.                                                     *)
(***************************************************************************)
C6_ScrollIsolation ==
    (ItemEnded(st) /\ st.faults = 0 /\ st.view = Gallery)
    => st.scrollY = st.snap.scrollY

(***************************************************************************)
(* C7 - Stopping condition.  The count of consecutive iterations without a *)
(* new link never passes 10; when it is 10 the scroll loop has ended, for  *)
(* that reason, and the loop ends for that reason only at 10; while the    *)
(* links of an iteration are processed the count is 0.                     *)
(***************************************************************************)
C7_StoppingCondition ==
    /\ st.no_new_photos_count <= EmptyThreshold
    /\ (st.no_new_photos_count = EmptyThreshold
           => st.pc \in {"summary", "done"} /\ st.stop = "empty")
    /\ (st.stop = "empty" => st.no_new_photos_count = EmptyThreshold)
    /\ (st.pc \in ItemPcs \cup {"item"} => st.no_new_photos_count = 0)

\* the loop ended at the 10th empty iteration of a run that had found
\* links before, with iterations of the budget left
C7_Witness ==
    /\ st.pc = "done"
    /\ st.stop = "empty"
    /\ st.no_new_photos_count = EmptyThreshold
    /\ st.processed_urls # {}
    /\ st.iter + 1 < st.max_scrolls

(***************************************************************************)
(* C8 - Failure isolation.  No outcome of an item ends the run: the run is *)
(* aborted only by a call outside the per-item block (the link query or    *)
(* the scrolling); while an item is processed it is the idx-th new link    *)
(* and every new link before it has its outcome; and, unless the limit was *)
(* reached, every link marked as processed has its outcome when its batch  *)
(* is over.                                                                *)
(***************************************************************************)
C8_FailureIsolation ==
    /\ (st.pc = "aborted" => st.raised_at \in {"discover", "scroll"})
    /\ (st.pc \in ItemPcs
           => /\ st.idx \in DOMAIN st.new_photos
              /\ st.photo_url = st.new_photos[st.idx])
    /\ (st.pc \in ItemPcs \cup {"item"}
           => \A i \in 1 .. (st.idx - 1) : HasResult(st, st.new_photos[i]))
    /\ (st.pc \in {"scroll", "loop", "discover", "summary", "done"}
        /\ ~LimitReached(st)
           => \A l \in st.processed_urls : HasResult(st, l))

\* the first link of a batch failed on an exception and the second one is
\* being processed
C8_Witness ==
    /\ st.pc = "navigate"
    /\ st.idx = 2
    /\ st.raised_at \in ItemPcs
    /\ st.results # <<>>
    /\ st.results[Len(st.results)].what = "Failed"

(***************************************************************************)
(* C9 - First-run summary.  When a run that began with an empty folder and *)
(* no limit has ended, no call having raised, and the k links it came to   *)
(* all resolve to good images, no two to the same image, then Downloaded   *)
(* is k, Skipped 0, Failed 0 and the total reported k.                     *)
(***************************************************************************)
DistinctImages(ls) ==
    \A a, b \in ls : a # b => ResolvedImage(a) # ResolvedImage(b)

C9_FirstRunSummary ==
    (/\ st.pc = "done"
     /\ st.files0 = {}
     /\ st.limit = None
     /\ st.faults = 0
     /\ \A l \in st.processed_urls : GoodLink(l)
     /\ DistinctImages(st.processed_urls))
    => /\ st.downloaded_count = Cardinality(st.processed_urls)
       /\ st.skipped_count = 0
       /\ st.failed_count = 0
       /\ st.total = Cardinality(st.processed_urls)

\* such a run of two links that both needed the fallback name
C9_Witness ==
    /\ st.pc = "done"
    /\ st.files0 = {}
    /\ st.limit = None
    /\ st.faults = 0
    /\ st.processed_urls = {3, 4}
    /\ st.total = 2

(***************************************************************************)
(* C10 - Resume-flag noninterference.  Two invocations with the same       *)
(* arguments but resume, the same folder and the same gallery are in the   *)
(* same state after every step, resume itself apart: the same decisions,   *)
(* files, index and counts.                                                *)
(***************************************************************************)
C10_ResumeNoninterference ==
    /\ ~st.resume
    /\ twin.resume
    /\ [twin EXCEPT !.resume = FALSE] = st

\* both ended, having skipped a link that the folder already held
C10_Witness ==
    /\ st.pc = "done"
    /\ twin.pc = "done"
    /\ st.files0 # {}
    /\ st.skipped_count > 0

(***************************************************************************)
(* C11 - Exactly one outcome per processed link.  Between batches and when *)
(* the run has ended, every link of processed_urls has been counted once,  *)
(* as Downloaded, Skipped or Failed, and the three counts add up to the    *)
(* number of links in processed_urls.                                      *)
(* The code breaks it: a link is added to processed_urls (line 188) before *)
(* the limit test that leaves the batch (line 191), so that link is never  *)
(* counted; and a link counted at lines 254-325 is counted again by the    *)
(* handler (line 333) when the navigation back raises.                     *)
(***************************************************************************)
BatchOver(s) == s.pc \in {"scroll", "loop", "discover", "summary", "done"}

TimesCounted(s, l) ==
    Cardinality({i \in DOMAIN s.results : s.results[i].link = l})

C11_OneOutcomePerLink ==
    BatchOver(st)
    => /\ st.downloaded_count + st.skipped_count + st.failed_count
             = Cardinality(st.processed_urls)
       /\ \A l \in st.processed_urls : TimesCounted(st, l) = 1

(***************************************************************************)
(* C12 - Download-limit invariant.  With any integer limit >= 0 the        *)
(* Downloaded count never exceeds the limit, and the code is about to      *)
(* navigate to an item page only while the count is below the limit.       *)
(* The code breaks it for limit 0: "if limit and ..." (lines 141, 191)     *)
(* takes 0 for no limit.                                                   *)
(***************************************************************************)
C12_DownloadLimitInvariant ==
    (st.limit # None /\ st.limit >= 0)
    => /\ st.downloaded_count <= st.limit
       /\ (st.pc = "navigate" => st.downloaded_count < st.limit)

(***************************************************************************)
(* C13 - No re-processing within a run.  While a link is processed it is   *)
(* in processed_urls (it was put there before the first step that can      *)
(* fail), and no link is navigated to or fetched twice in one run,         *)
(* whatever its outcome was and however often the page shows it again.     *)
(***************************************************************************)
NoRepeat(xs) == \A i, j \in DOMAIN xs : i # j => xs[i] # xs[j]

C13_NoReprocessing ==
    /\ (st.pc \in ItemPcs => st.photo_url \in st.processed_urls)
    /\ Range(st.navigated) \subseteq st.processed_urls
    /\ NoRepeat(st.navigated)
    /\ NoRepeat(st.fetched)

\* a later iteration: the page shows again a link whose processing failed
\* on an exception, and it is left alone
C13_Witness ==
    /\ st.pc = "scroll"
    /\ st.iter >= 1
    /\ st.new_photos = <<>>
    /\ \E l \in Range(current_photo_links(st, {})) :
          l \in st.faulted /\ st.navigated = <<l>>

(***************************************************************************)
(* C14 - Failed items leave storage untouched.  When the processing of an  *)
(* item that was counted Failed has ended, the output folder and the index *)
(* are what they were when the item began.                                 *)
(* The code breaks it: the file is written in place (lines 307-308), and   *)
(* when the write, the size check (line 311) or the removal (line 314)     *)
(* raises, the handler counts the item Failed and leaves the file, whole   *)
(* or in part, in the folder.                                              *)
(***************************************************************************)
ItemFailed(s) ==
    /\ ItemEnded(s)
    /\ \E i \in DOMAIN s.results :
          s.results[i].link = s.photo_url /\ s.results[i].what = "Failed"

C14_FailedLeavesStorage ==
    ItemFailed(st)
    => /\ st.files = st.snap.files
       /\ st.existing_ids = st.snap.ids

(***************************************************************************)
(* C15 - No false duplicate.  A link is counted Skipped only when the      *)
(* folder holds the bytes of its own image (no call having raised).        *)
(* The code breaks it: the fallback name photo_NNNN is built from the      *)
(* run's Downloaded count (line 278) and says nothing of the image, so it  *)
(* can be the name of a file another item left in an earlier run; the item *)
(* is then skipped (line 291) and never stored.                            *)
(***************************************************************************)
AssetStored(files, l) ==
    /\ ResolvedImage(l) # 0
    /\ \E f \in files : f.data = Images[ResolvedImage(l)].data

C15_NoFalseDuplicate ==
    st.faults = 0
    => \A i \in DOMAIN st.results :
          st.results[i].what = "Skipped" => AssetStored(st.files, st.results[i].link)

(***************************************************************************)
(* C16 - Resolver heuristic.  When an item's detail view has been          *)
(* inspected (no call raising for the item), the image chosen is that of   *)
(* the first candidate of the largest area of the first selector, in the   *)
(* order of img_selectors, that has a candidate of an area above 40000,    *)
(* the area being width x height with the rendered box for an absent       *)
(* attribute; no selector after that one was queried; and when there is no *)
(* such selector, or the chosen image has no src or a data: src, the item  *)
(* is counted Failed, once, and nothing is fetched.                        *)
(***************************************************************************)
\* the candidates selector k measures
Measured(page, k) == Readable(page[k], 1, k, {})

Qualifying(page) ==
    {k \in DOMAIN page :
        \E i \in DOMAIN Measured(page, k) : Area(Measured(page, k)[i]) > MinArea}

FirstOf(ks) == CHOOSE k \in ks : \A j \in ks : k <= j

\* the earliest of the candidates of selector k that no other one exceeds
Chosen(page, k) ==
    LET cs == Measured(page, k)
        top == {i \in DOMAIN cs : \A j \in DOMAIN cs : Area(cs[j]) <= Area(cs[i])}
    IN cs[FirstOf(top)]

Inspected(s) ==
    /\ s.pc \in {"fetch", "store", "back"}
    /\ s.photo_url \notin s.faulted

JustDiscovered(s) ==
    \/ s.pc = "item" /\ s.idx = 1
    \/ s.pc = "scroll" /\ s.new_photos = <<>>
    \/ s.pc = "summary" /\ s.stop = "empty"

FirstAt(xs, x) == CHOOSE i \in DOMAIN xs : xs[i] = x /\ \A j \in 1 .. (i - 1) : xs[j] # x

\* xs holds the members of set wanted, each once, in the order of their
\* first occurrence in from
OrderedPick(xs, wanted, from) ==
    /\ NoRepeat(xs)
    /\ Range(xs) = wanted
    /\ \A i, j \in DOMAIN xs : i < j => FirstAt(from, xs[i]) < FirstAt(from, xs[j])

ItemLinks(xs) == {l \in Range(xs) : ~Catalog[l].album}

C17_LinkDiscovery ==
    JustDiscovered(st)
    => /\ OrderedPick(st.current_photo_links, ItemLinks(st.hrefs), st.hrefs)
       /\ Range(st.current_photo_links) \subseteq ItemLinks(PageLinks(st))
       /\ (st.faults = 0
              => Range(st.current_photo_links) = ItemLinks(PageLinks(st)))
       /\ OrderedPick(st.new_photos,
                      Range(st.current_photo_links) \ st.processed_urls,
                      st.current_photo_links)

\* the page showed an album and an item link that two selectors match
C17_Witness ==
    /\ st.pc = "item"
    /\ st.idx = 1
    /\ st.faults = 0
    /\ \E h \in Range(st.hrefs) : Catalog[h].album
    /\ Len(st.hrefs) > Cardinality(Range(st.hrefs))
    /\ st.current_photo_links = <<1>>

(***************************************************************************)
(* C18 - Bounded discovery and stop reasons.  The run always ends; the     *)
(* scroll loop never makes more than max_scrolls iterations; it goes on    *)
(* only while the count of empty iterations is below 10, the budget is not *)
(* spent and, where links are looked for, the limit is not reached; and    *)
(* it stops for one of these three reasons, each recorded only when it     *)
(* holds - or because a call outside the per-item block (the link query,   *)
(* the scrolling) raised, which ends the run without a summary.            *)
(***************************************************************************)
Ended(s) == s.pc \in {"done", "aborted"}

Stopped(s) == s.pc \in {"summary", "done", "aborted"}

ReasonHolds(s) ==
    /\ s.stop = "empty" => s.no_new_photos_count >= EmptyThreshold
    /\ s.stop = "budget" => s.iter = s.max_scrolls
    /\ s.stop = "limit" => LimitReached(s)
    /\ s.stop = "exception" => s.pc = "aborted" /\ s.raised_at \in {"discover", "scroll"}

BoundedDiscovery(s) ==
    /\ s.iter <= s.max_scrolls
    /\ (~Stopped(s)
           => /\ s.stop = ""
              /\ s.no_new_photos_count < EmptyThreshold
              /\ (s.pc # "loop" => s.iter < s.max_scrolls))
    /\ (s.pc = "discover" => ~LimitReached(s))
    /\ (Stopped(s) => s.stop \in {"empty", "budget", "limit", "exception"})
    /\ ReasonHolds(s)

C18_BoundedDiscovery == [](BoundedDiscovery(st)) /\ <>(Ended(st))

\* the claim without the fourth reason: whenever the loop has stopped it is
\* for the count of empty iterations, the budget or the limit
C18_ThreeReasonsOnly == Stopped(st) => st.stop \in {"empty", "budget", "limit"}

\* a run that found links and ended when the budget of iterations was spent
C18_Witness ==
    /\ st.pc = "done"
    /\ st.stop = "budget"
    /\ st.iter = st.max_scrolls
    /\ st.processed_urls # {}
    /\ st.no_new_photos_count > 0

(***************************************************************************)
(* C19 - Index matches disk.  Between items and when the run has ended,    *)
(* existing_ids is the set of stems of the non-hidden files of the output  *)
(* folder, and the total the summary reports is the number of those files. *)
(* The code breaks it: a file that the write leaves behind when the item   *)
(* fails on an exception (C14) is in the folder and not in the index.      *)
(***************************************************************************)
Assets(files) == {f \in files : ~Hidden(f)}

C19_IndexMatchesDisk ==
    /\ (st.pc \in {"item", "done"}
           => st.existing_ids = get_existing_photo_ids(st.files))
    /\ (st.pc = "done" => st.total = Cardinality(Assets(st.files)))

(***************************************************************************)
(* C20 - Existing files are never touched.  No step of the run removes or  *)
(* changes a file that was in the output folder before the step: the files *)
(* the run began with and the files stored earlier stay as they are.  (An  *)
(* undersized file is written and removed within one step, lines 307-314,  *)
(* so the one file the run removes was not in the folder before.)          *)
(***************************************************************************)
C20_ExistingFilesUntouched == [][st.files \subseteq st'.files]_vars

\* an item whose name is that of a file the folder began with was skipped,
\* the file being as it was
C20_Witness ==
    /\ st.pc = "back"
    /\ st.skipped_count = st.snap.skipped + 1
    /\ st.photo_id = FallbackId(1)
    /\ \E f \in st.files0 :
          /\ f.stem = st.photo_id
          /\ f.ext = st.ext
          /\ f.data # Images[st.full_img].data
          /\ f \in st.files

=============================================================================
